---- MODULE Spec2Model ----
(***************************************************************************)
(* The sum visualizer (src/unnamed/part_001): a React component that lays  *)
(* number1 + number2 textured cubes out in 5x5x5 blocks; and the cube      *)
(* viewers (src/unnamed/part_002, part_003), each a specification of its   *)
(* own over its own variables.                                             *)
(*                                                                         *)
(* JavaScript values are records: a number (possibly NaN) or a string, the *)
(* latter a sequence of one-character strings, so that `+`, parseInt and   *)
(* the numeric coercions act as they do in the source.  Counts are         *)
(* integers.  Lengths are IEEE doubles, rounded to nearest-even after      *)
(* every operation as the engine rounds them: a double is written exactly  *)
(* as t tenths plus e fifths of 2^-52 (1.2 is [t |-> 12, e |-> -1]).       *)
(***************************************************************************)
EXTENDS Integers, Sequences, FiniteSets, Bags

VARIABLES
    number1,        \* React state number1 (useState(7))
    number2,        \* React state number2 (useState(9))
    textureLoaded,  \* React state textureLoaded, latest value set
    rendered,       \* values the committed render closed over
    mounted,        \* the setup effect has run at least once
    sceneRef,       \* sceneRef.current: "null" or "scene"
    textureRef,     \* textureRef.current: "null", "texture" or "disposed"
    shapeMeshes,    \* shapeMeshesRef.current, one record per mesh
    sceneMeshes,    \* the shape meshes among the children of sceneRef.current, in order
    loads,          \* texture loads in flight: a bag of their callbacks' closures
    lastCall,       \* arguments of the addShapesForEquation call that built shapeMeshes
    lastAlert       \* the last alert() shown to the user

\* the sum visualizer's variables
sumVars == <<number1, number2, textureLoaded, rendered, mounted, sceneRef,
             textureRef, shapeMeshes, sceneMeshes, loads, lastCall, lastAlert>>

\* The cube viewers (src/unnamed/part_002 and part_003)
VARIABLES
    effect,                 \* the setup effect: "unmounted", "mounted" or "cleaned"
    rendererRef,            \* rendererRef.current: "null", "renderer" or "disposed"
    cubeRef,                \* cubeRef.current: "null" or "cube"
    cubeRotation,           \* cubeRef.current.rotation: [x, y], two doubles
    isDragging,             \* isDragging.current
    previousMousePosition,  \* previousMousePosition.current: [x, y]
    listening,              \* the canvas and window listeners are registered
    rafLoops,               \* running requestAnimationFrame loops, by function
    windowSize,             \* the size of the browser container
    canvas,                 \* what handleResize last set: [aspect, size]
    message,                \* React state message
    navigatorXR,            \* navigator.xr is defined
    xrRequest,              \* the promise of requestSession: "none" or "pending"
    xrSession,              \* the session given to xr.setSession: "none", "attached", "presenting"
    isPresenting,           \* renderer.xr.isPresenting
    animationLoop,          \* the callback of setAnimationLoop: "null" or "xrLoop"
    endListener,            \* the session has the 'end' listener of enterVR
    frames,                 \* animation frames run so far
    moves,                  \* pointer move events delivered so far
    sessions,               \* VR sessions granted so far
    dragStart               \* the last mousedown, while only mousemoves followed it

viewerVars == <<effect, rendererRef, cubeRef, cubeRotation, isDragging,
                previousMousePosition, listening, rafLoops, windowSize, canvas,
                message, navigatorXR, xrRequest, xrSession, isPresenting,
                animationLoop, endListener, frames, moves, sessions, dragStart>>

\* the viewer with 'Add Another Shape' (src/src/App.js)
VARIABLES
    shapesState,     \* React state shapes: one entry per mesh, by its number
    shapesLength,    \* shapes.length as the committed render saw it
    shapeMeshesRef,  \* shapeMeshesRef.current: the position of each mesh
    sceneShapes,     \* the shape meshes among the children of the scene
    recentered,      \* shapes.length at the last run of the re-centering effect
    clicks           \* clicks on 'Add Another Shape' so far

shapeVars == <<shapesState, shapesLength, shapeMeshesRef, sceneShapes, recentered, clicks>>

vars == <<sumVars, viewerVars, shapeVars>>

----------------------------------------------------------------------------
(* Bounds of the model *)

\* operand inputs typed in the UI specification: "", and the integers -1..MaxInput
MaxInput == 0
\* texture loads that may be in flight at once
MaxPendingLoads == 1
\* operands of the layout specification: 0..MaxCount1 and 0..MaxCount2
MaxCount1 == 252
MaxCount2 == 4
\* animation frames and pointer move events of the cube viewers
MaxFrames == 2
MaxMoves == 2
\* animation frames, pointer move events and VR sessions of the WebXR viewer
MaxXRFrames == 1
MaxXRMoves == 1
MaxSessions == 1
\* clicks on 'Add Another Shape'
MaxClicks == 4

----------------------------------------------------------------------------
(* JavaScript values *)

Num(n) == [t |-> "number", nan |-> FALSE, n |-> n, s |-> <<>>]
NaN == [t |-> "number", nan |-> TRUE, n |-> 0, s |-> <<>>]
Str(s) == [t |-> "string", nan |-> FALSE, n |-> 0, s |-> s]

DigitChar == <<"0", "1", "2", "3", "4", "5", "6", "7", "8", "9">>

IsDigit(c) == \E d \in 1..10 : DigitChar[d] = c

DigitVal(c) == (CHOOSE d \in 1..10 : DigitChar[d] = c) - 1

RECURSIVE Digits(_)
Digits(n) ==
    IF n < 10 THEN <<DigitChar[n + 1]>>
    ELSE Digits(n \div 10) \o <<DigitChar[(n % 10) + 1]>>

\* Number.prototype.toString for the integers and NaN
NumberToString(v) ==
    IF v.nan THEN <<"N", "a", "N">>
    ELSE IF v.n < 0 THEN <<"-">> \o Digits(-v.n)
    ELSE Digits(v.n)

JSToString(v) == IF v.t = "string" THEN v.s ELSE NumberToString(v)

RECURSIVE DigitsValue(_)
DigitsValue(s) ==
    IF Len(s) = 0 THEN 0
    ELSE 10 * DigitsValue(SubSeq(s, 1, Len(s) - 1)) + DigitVal(s[Len(s)])

AllDigits(s) == \A k \in 1..Len(s) : IsDigit(s[k])

\* StringToNumber: "" is 0, an optionally signed run of digits is its value,
\* anything else is NaN
StringToNumber(s) ==
    IF Len(s) = 0 THEN Num(0)
    ELSE IF AllDigits(s) THEN Num(DigitsValue(s))
    ELSE IF s[1] = "-" /\ Len(s) > 1 /\ AllDigits(Tail(s)) THEN Num(-DigitsValue(Tail(s)))
    ELSE NaN

ToNumber(v) == IF v.t = "string" THEN StringToNumber(v.s) ELSE v

RECURSIVE LeadingDigits(_)
LeadingDigits(s) ==
    IF Len(s) = 0 \/ ~IsDigit(s[1]) THEN <<>>
    ELSE <<s[1]>> \o LeadingDigits(Tail(s))

\* parseInt(v): the argument's string, an optional sign, then the longest run of digits
parseInt(v) ==
    LET s == JSToString(v)
        neg == Len(s) > 0 /\ s[1] = "-"
        body == IF neg THEN Tail(s) ELSE s
        ds == LeadingDigits(body)
    IN  IF Len(ds) = 0 THEN NaN
        ELSE IF neg THEN Num(-DigitsValue(ds))
        ELSE Num(DigitsValue(ds))

isNaN(v) == ToNumber(v).nan

\* a + b: concatenation as soon as one operand is a string
JSAdd(a, b) ==
    IF a.t = "string" \/ b.t = "string" THEN Str(JSToString(a) \o JSToString(b))
    ELSE IF a.nan \/ b.nan THEN NaN
    ELSE Num(a.n + b.n)

\* a < b with at least one operand a number: numeric, false on NaN
JSLess(a, b) ==
    LET x == ToNumber(a)
        y == ToNumber(b)
    IN  ~x.nan /\ ~y.nan /\ x.n < y.n

\* a % m for a number a and m > 0: the sign of the dividend
JSRem(a, m) == IF a >= 0 THEN a % m ELSE -((-a) % m)

\* Math.ceil(a / m) for integers a and m > 0
CeilDiv(a, m) == -((-a) \div m)

----------------------------------------------------------------------------
(* IEEE doubles: the value t/10 + (e/5) * 2^-52 *)

Dbl(t, e) == [t |-> t, e |-> e]

Abs(n) == IF n < 0 THEN -n ELSE n

Pow2(k) == <<1, 2, 4, 8, 16, 32, 64, 128, 256, 512, 1024, 2048>>[k + 1]

\* |value| < 2^k, for the value a/10 + (s/5) * 2^-52 with a >= 0
BelowPow2(a, s, k) == a < 10 * Pow2(k) \/ (a = 10 * Pow2(k) /\ s < 0)

RECURSIVE BinadeFrom(_, _, _)
BinadeFrom(a, s, k) == IF BelowPow2(a, s, k + 1) THEN k ELSE BinadeFrom(a, s, k + 1)

\* the exponent k of the value: 2^k <= |value| < 2^(k+1), or -1 below 1
Binade(t, e) == BinadeFrom(Abs(t), IF t < 0 THEN -e ELSE e, -1)

\* 2^51 modulo m = 5 * 2^j (j <= 11): the multiple of 2^j that is 3 modulo 5
TwoPow51Mod(m) == (m \div 5) * (CHOOSE f \in 0..4 : ((m \div 5) * f) % 5 = 3)

\* the value counted in fifths of 2^-52, modulo m
FifthsMod(t, e, m) == (((t % m) * (TwoPow51Mod(m) % m)) + e) % m

\* round to the nearest double, ties to even; values below 1 arise only as
\* exact sums of multiples of 2^-52 and are representable as they are
FRound(t, e) ==
    LET k == Binade(t, e)
        ulp == 5 * Pow2(IF k < 0 THEN 0 ELSE k)
        n2 == FifthsMod(t, e, 2 * ulp)
        r == n2 % ulp
    IN  IF k < 0 \/ r = 0 THEN Dbl(t, e)
        ELSE IF 2 * r < ulp \/ (2 * r = ulp /\ n2 = r) THEN Dbl(t, e - r)
        ELSE Dbl(t, e - r + ulp)

\* an integer, and a decimal literal with one fractional digit
FromInt(n) == Dbl(10 * n, 0)
FromTenths(t) == FRound(t, 0)

FNeg(x) == Dbl(-x.t, -x.e)
FAdd(x, y) == FRound(x.t + y.t, x.e + y.e)
FSub(x, y) == FRound(x.t - y.t, x.e - y.e)
\* n * x for an integer n
FMulInt(n, x) == FRound(n * x.t, n * x.e)
\* x / 2, exact: every halved value is an even number of tenths
FHalf(x) == Dbl(x.t \div 2, x.e \div 2)
FLess(x, y) == x.t < y.t \/ (x.t = y.t /\ x.e < y.e)
FLeq(x, y) == x = y \/ FLess(x, y)
FAbs(x) == IF FLess(x, Dbl(0, 0)) THEN FNeg(x) ELSE x

----------------------------------------------------------------------------
(* Rotation angles of the cube viewers (src/unnamed/part_002, part_003):    *)
(* IEEE doubles below 1, written exactly as t two-hundredths plus e units   *)
(* of 2^-60 / 25 (0.005 is [t |-> 1, e |-> 3], 0.01 is [t |-> 2, e |-> 6]). *)

Ang(t, e) == [t |-> t, e |-> e]

\* 2^k for k in 0..20
AngPow2(k) ==
    <<1, 2, 4, 8, 16, 32, 64, 128, 256, 512, 1024, 2048, 4096, 8192, 16384,
      32768, 65536, 131072, 262144, 524288, 1048576>>[k + 1]

\* |t / 200 + e units| < 2^(j - 8), for a magnitude t >= 1 and j >= 0
AngBelowPow2(a, s, j) ==
    256 * a < 200 * AngPow2(j) \/ (256 * a = 200 * AngPow2(j) /\ s < 0)

RECURSIVE AngBinadeFrom(_, _, _)
AngBinadeFrom(a, s, j) ==
    IF AngBelowPow2(a, s, j + 1) THEN j ELSE AngBinadeFrom(a, s, j + 1)

\* j with 2^(j - 8) <= |value| < 2^(j - 7); the ulp there is 25 * 2^j units
AngBinade(t, e) == AngBinadeFrom(Abs(t), IF t < 0 THEN -e ELSE e, 0)

\* (t / 200 + e units) mod m units, for m = 25 * 2^i: 1/200 is 2^57 units, and
\* 2^20 = 1 (mod 25)
AngUnitsMod(t, e, i) ==
    (AngPow2(i) * (((t % 25) * (AngPow2((57 - i) % 20) % 25)) % 25) + e)
        % (25 * AngPow2(i))

\* round to the nearest double, ties to even; every value met is a multiple of
\* 2^-60, so a magnitude below 2^-8 (t = 0) is a double already
AngRound(t, e) ==
    IF t = 0 THEN Ang(t, e)
    ELSE LET j == AngBinade(t, e)
             ulp == 25 * AngPow2(j)
             n2 == AngUnitsMod(t, e, j + 1)
             r == n2 % ulp
         IN  IF r = 0 THEN Ang(t, e)
             ELSE IF 2 * r < ulp \/ (2 * r = ulp /\ n2 = r) THEN Ang(t, e - r)
             ELSE Ang(t, e - r + ulp)

\* the literals 0.005 and 0.01
AutoRotateStep == AngRound(1, 0)
DragFactor == AngRound(2, 0)

AngAdd(x, y) == AngRound(x.t + y.t, x.e + y.e)
\* n * x for an integer n
AngMulInt(n, x) == AngRound(n * x.t, n * x.e)

\* no mousedown is being followed
NoDrag == [on |-> FALSE, x |-> 0, y |-> 0, rotation |-> [x |-> Ang(0, 0), y |-> Ang(0, 0)]]

\* the add-shape viewer after its first render, before its effects: no
\* re-centering effect has run yet
ShapesUnmounted ==
    /\ shapesState = <<>>
    /\ shapesLength = 0
    /\ shapeMeshesRef = <<>>
    /\ sceneShapes = 0
    /\ recentered = -1
    /\ clicks = 0

\* a cube viewer before its first commit: every ref holds its useRef() value
ViewerUnmounted ==
    /\ effect = "unmounted"
    /\ rendererRef = "null"
    /\ cubeRef = "null"
    /\ cubeRotation = [x |-> Ang(0, 0), y |-> Ang(0, 0)]
    /\ isDragging = FALSE
    /\ previousMousePosition = [x |-> 0, y |-> 0]
    /\ listening = FALSE
    /\ rafLoops = [animate |-> 0, animateNonVR |-> 0]
    /\ windowSize = 1
    /\ canvas = [aspect |-> 0, size |-> 0]
    /\ message = "drag"
    /\ xrRequest = "none"
    /\ xrSession = "none"
    /\ isPresenting = FALSE
    /\ animationLoop = "null"
    /\ endListener = FALSE
    /\ frames = 0
    /\ moves = 0
    /\ sessions = 0
    /\ dragStart = NoDrag

----------------------------------------------------------------------------
(* addShapesForEquation: the layout *)

orangeColor == "orange"
blueColor == "blue"
boxSize == FromInt(1)
spacing == FromTenths(12)
gridX_dim == 5
gridY_dim == 5
gridZ_dim == 5
maxShapesPerBlock == gridX_dim * gridY_dim * gridZ_dim

totalShapes(num1, num2) == JSAdd(num1, num2)

\* Math.ceil(totalShapes / maxShapesPerBlock), NaN when totalShapes is not a number
numBlocks(total) ==
    LET tn == ToNumber(total)
    IN  IF tn.nan THEN NaN ELSE Num(CeilDiv(tn.n, maxShapesPerBlock))

blockSpacingXNoGap == FMulInt(gridX_dim, spacing)

blockSpacingX == FAdd(FMulInt(gridX_dim, spacing), FromInt(3))

lastBlockShapes(total) ==
    LET tn == ToNumber(total)
    IN  IF tn.nan THEN NaN ELSE Num(JSRem(tn.n, maxShapesPerBlock))

columnsInLastBlock(total) ==
    LET last == lastBlockShapes(total)
    IN  IF ~last.nan /\ last.n = 0 /\ JSLess(Num(0), total) THEN gridX_dim
        ELSE IF JSLess(Num(0), last) THEN JSRem(last.n - 1, gridX_dim) + 1
        ELSE 0

totalSceneWidth(total) ==
    IF JSLess(Num(0), numBlocks(total))
    THEN LET width == FMulInt(numBlocks(total).n - 1, blockSpacingX)
         IN  IF columnsInLastBlock(total) > 0
             THEN FAdd(width, FAdd(FMulInt(columnsInLastBlock(total) - 1, spacing), boxSize))
             ELSE width
    ELSE FromInt(0)

overallStartX(total) == FHalf(FNeg(totalSceneWidth(total)))

\* the values of i for which the loop `for (i = 0; i < totalShapes; i++)` runs its body
LoopIndicesOffByOne(total) ==
    LET tn == ToNumber(total)
    IN  IF tn.nan \/ tn.n < 0 THEN {} ELSE 0..tn.n

LoopIndices(total) ==
    LET tn == ToNumber(total)
    IN  IF tn.nan \/ tn.n <= 0 THEN {} ELSE 0..(tn.n - 1)

ShapeColorInclusive(i, num1) ==
    IF JSLess(Num(i), num1) \/ ToNumber(num1) = Num(i) THEN orangeColor ELSE blueColor

ShapeColor(i, num1) == IF JSLess(Num(i), num1) THEN orangeColor ELSE blueColor

currentBlockIndexShort(i) == i \div (maxShapesPerBlock - 1)

currentBlockIndexCeil(i) == CeilDiv(i, maxShapesPerBlock)

currentBlockIndex(i) == i \div maxShapesPerBlock

indexInBlock(i) == i % maxShapesPerBlock

xInBlock(i) == indexInBlock(i) % gridX_dim

yInBlockNoWrap(i) == indexInBlock(i) \div gridX_dim

yInBlock(i) == (indexInBlock(i) \div gridX_dim) % gridY_dim

zInBlock(i) == indexInBlock(i) \div (gridX_dim * gridY_dim)

blockCenterOffsetX == FHalf(FMulInt(gridX_dim - 1, spacing))
blockCenterOffsetY == FHalf(FMulInt(gridY_dim - 1, spacing))
blockCenterOffsetZ == FHalf(FMulInt(gridZ_dim - 1, spacing))

finalXNoCell(i, startX) ==
    FSub(FAdd(startX, FMulInt(currentBlockIndex(i), blockSpacingX)), blockCenterOffsetX)

\* startX is the value of overallStartX, computed once before the loop
finalX(i, startX) ==
    FSub(FAdd(FAdd(startX, FMulInt(currentBlockIndex(i), blockSpacingX)),
              FMulInt(xInBlock(i), spacing)),
         blockCenterOffsetX)

finalYUncentered(i) == FMulInt(yInBlock(i), spacing)

finalY(i) == FSub(FMulInt(yInBlock(i), spacing), blockCenterOffsetY)

finalZ(i) == FSub(FMulInt(zInBlock(i), spacing), blockCenterOffsetZ)

\* one mesh: its tint and position, with the loop's locals it was placed by
NewShape(i, num1, startX) ==
    [color |-> ShapeColor(i, num1),
     block |-> currentBlockIndex(i),
     index |-> indexInBlock(i),
     xCell |-> xInBlock(i),
     yCell |-> yInBlock(i),
     zCell |-> zInBlock(i),
     x |-> finalX(i, startX),
     y |-> finalY(i),
     z |-> finalZ(i)]

\* the meshes the loop pushes, in order
LayoutShapes(num1, num2) ==
    LET total == totalShapes(num1, num2)
        startX == overallStartX(total)
        n == Cardinality(LoopIndices(total))
    IN  [k \in 1..n |-> NewShape(k - 1, num1, startX)]

clearShapesKeepList(scene, shapes) == shapes

\* clearShapes(): nothing without a scene, otherwise the list is emptied
clearShapes(scene, shapes) == IF scene = "null" THEN shapes ELSE <<>>

sceneRemoveShapesKeepAll(scene, children, shapes) == children

\* the scene's side of clearShapes(): scene.remove(shape) for every listed shape
sceneRemoveShapes(scene, children, shapes) ==
    IF scene = "null" THEN children
    ELSE LET listed == {shapes[k] : k \in 1..Len(shapes)}
         IN  SelectSeq(children, LAMBDA m : m \notin listed)

\* the guard of addShapesForEquation; tl is the textureLoaded its closure holds
Ready(tl, scene, texture) == ~(scene = "null" \/ ~tl \/ texture = "null")

\* shapeMeshesRef.current after addShapesForEquation(num1, num2)
addShapesForEquation(num1, num2, tl, scene, texture, shapes) ==
    IF Ready(tl, scene, texture)
    THEN clearShapes(scene, shapes) \o LayoutShapes(num1, num2)
    ELSE clearShapes(scene, shapes)

\* the scene's side of addShapesForEquation: the listed shapes are removed, and
\* every mesh pushed onto the list (after) is added to the scene
sceneAddShapes(scene, children, shapes, after) ==
    sceneRemoveShapes(scene, children, shapes)
    \o SubSeq(after, Len(clearShapes(scene, shapes)) + 1, Len(after))

NoCall == [made |-> FALSE, ready |-> FALSE, num1 |-> Num(0), num2 |-> Num(0)]

Call(num1, num2, ready) == [made |-> TRUE, ready |-> ready, num1 |-> num1, num2 |-> num2]

----------------------------------------------------------------------------
(* The component: state, effect, callbacks and handlers *)

\* what a callback created by a render closes over
Closure(n1, n2, tl) == [number1 |-> n1, number2 |-> n2, textureLoaded |-> tl]

\* e.target.value of the two number inputs
InputValues == {<<>>} \cup {NumberToString(Num(n)) : n \in -1..MaxInput}

\* a re-render for a changed textureLoaded is scheduled and not yet committed
RenderPending == textureLoaded # rendered.textureLoaded

SumInit ==
    /\ number1 = Num(7)
    /\ number2 = Num(9)
    /\ textureLoaded = FALSE
    /\ rendered = Closure(Num(7), Num(9), FALSE)
    /\ mounted = FALSE
    /\ sceneRef = "null"
    /\ textureRef = "null"
    /\ shapeMeshes = <<>>
    /\ sceneMeshes = <<>>
    /\ loads = EmptyBag
    /\ lastCall = NoCall
    /\ lastAlert = "none"

Init ==
    /\ SumInit
    /\ ViewerUnmounted
    /\ ShapesUnmounted
    /\ navigatorXR = FALSE

\* the body of the setup effect: a new renderer and scene, and a texture load
\* whose callbacks close over the render that ran the effect
SetupEffect(closure, pending) ==
    /\ sceneRef' = "scene"
    /\ sceneMeshes' = <<>>
    /\ loads' = pending (+) SetToBag({closure})

\* the cleanup the setup effect returned
EffectCleanup ==
    /\ shapeMeshes' = <<>>
    /\ lastCall' = NoCall
    /\ textureRef' = IF textureRef # "null" THEN "disposed" ELSE textureRef

\* first commit: the setup effect runs for the first time
Mount ==
    /\ ~mounted
    /\ mounted' = TRUE
    /\ SetupEffect(rendered, loads)
    /\ UNCHANGED <<number1, number2, textureLoaded, rendered, textureRef,
                   shapeMeshes, lastCall, lastAlert>>

\* a dependency of the setup effect changed: cleanup of the old run, then a new run
RerunEffect(closure) ==
    /\ EffectCleanup
    /\ SetupEffect(closure, loads)

\* onChange of the first input: setNumber1(e.target.value), rendered at once
ChangeNumber1(v) ==
    /\ mounted
    /\ v # JSToString(number1)
    /\ BagCardinality(loads) + (IF RenderPending THEN 1 ELSE 0) < MaxPendingLoads
    /\ number1' = Str(v)
    /\ rendered' = [rendered EXCEPT !.number1 = Str(v)]
    /\ RerunEffect(rendered')
    /\ UNCHANGED <<number2, textureLoaded, mounted, lastAlert>>

\* onChange of the second input: setNumber2(e.target.value), rendered at once
ChangeNumber2(v) ==
    /\ mounted
    /\ v # JSToString(number2)
    /\ BagCardinality(loads) + (IF RenderPending THEN 1 ELSE 0) < MaxPendingLoads
    /\ number2' = Str(v)
    /\ rendered' = [rendered EXCEPT !.number2 = Str(v)]
    /\ RerunEffect(rendered')
    /\ UNCHANGED <<number1, textureLoaded, mounted, lastAlert>>

\* onLoad of a load in flight whose callback closes over c
TextureLoadSuccess(c) ==
    /\ BagIn(c, loads)
    /\     /\ textureRef' = "texture"
           /\ textureLoaded' = TRUE
           /\ shapeMeshes' = addShapesForEquation(c.number1, c.number2, c.textureLoaded,
                                                  sceneRef, "texture", shapeMeshes)
           /\ sceneMeshes' = sceneAddShapes(sceneRef, sceneMeshes, shapeMeshes, shapeMeshes')
           /\ lastCall' = Call(c.number1, c.number2,
                               Ready(c.textureLoaded, sceneRef, "texture"))
    /\ loads' = loads (-) SetToBag({c})
    /\ UNCHANGED <<number1, number2, rendered, mounted, sceneRef, lastAlert>>

\* onError of a load in flight whose callback closes over c
TextureLoadError(c) ==
    /\ BagIn(c, loads)
    /\ textureLoaded' = FALSE
    /\ lastAlert' = "loadFailed"
    /\ loads' = loads (-) SetToBag({c})
    /\ UNCHANGED <<number1, number2, rendered, mounted, sceneRef, textureRef,
                   shapeMeshes, sceneMeshes, lastCall>>

\* the re-render scheduled by setTextureLoaded commits; addShapesForEquation has a
\* new identity, so the setup effect is cleaned up and run again
Render ==
    /\ mounted
    /\ RenderPending
    /\ rendered' = [rendered EXCEPT !.textureLoaded = textureLoaded]
    /\ RerunEffect(rendered')
    /\ UNCHANGED <<number1, number2, textureLoaded, mounted, lastAlert>>

handleVisualizeClickClearing ==
    /\ mounted
    /\ rendered.textureLoaded
    /\ LET num1 == parseInt(rendered.number1)
           num2 == parseInt(rendered.number2)
       IN  /\ shapeMeshes' = addShapesForEquation(num1, num2, rendered.textureLoaded,
                                                  sceneRef, textureRef, shapeMeshes)
           /\ sceneMeshes' = sceneAddShapes(sceneRef, sceneMeshes, shapeMeshes,
                                            shapeMeshes')
           /\ IF isNaN(num1) \/ isNaN(num2) \/ JSLess(num1, Num(0)) \/ JSLess(num2, Num(0))
              THEN lastAlert' = "invalidNumbers" /\ UNCHANGED lastCall
              ELSE /\ lastCall' = Call(num1, num2,
                                       Ready(rendered.textureLoaded, sceneRef, textureRef))
                   /\ UNCHANGED lastAlert
    /\ UNCHANGED <<number1, number2, textureLoaded, rendered, mounted, sceneRef,
                   textureRef, loads>>

\* click on the Visualize button, which is disabled while !textureLoaded
handleVisualizeClick ==
    /\ mounted
    /\ rendered.textureLoaded
    /\ LET num1 == parseInt(rendered.number1)
           num2 == parseInt(rendered.number2)
       IN  IF isNaN(num1) \/ isNaN(num2) \/ JSLess(num1, Num(0)) \/ JSLess(num2, Num(0))
           THEN /\ lastAlert' = "invalidNumbers"
                /\ UNCHANGED <<shapeMeshes, sceneMeshes, lastCall>>
           ELSE IF rendered.textureLoaded
           THEN /\ shapeMeshes' = addShapesForEquation(num1, num2, rendered.textureLoaded,
                                                       sceneRef, textureRef, shapeMeshes)
                /\ sceneMeshes' = sceneAddShapes(sceneRef, sceneMeshes, shapeMeshes,
                                                 shapeMeshes')
                /\ lastCall' = Call(num1, num2,
                                    Ready(rendered.textureLoaded, sceneRef, textureRef))
                /\ UNCHANGED lastAlert
           ELSE /\ lastAlert' = "textureNotLoaded"
                /\ UNCHANGED <<shapeMeshes, sceneMeshes, lastCall>>
    /\ UNCHANGED <<number1, number2, textureLoaded, rendered, mounted, sceneRef,
                   textureRef, loads>>

Next ==
    \/ Mount /\ UNCHANGED <<viewerVars, shapeVars>>
    \/ (\E v \in InputValues : ChangeNumber1(v)) /\ UNCHANGED <<viewerVars, shapeVars>>
    \/ (\E v \in InputValues : ChangeNumber2(v)) /\ UNCHANGED <<viewerVars, shapeVars>>
    \/ (\E c \in BagToSet(loads) : TextureLoadSuccess(c)) /\ UNCHANGED <<viewerVars, shapeVars>>
    \/ (\E c \in BagToSet(loads) : TextureLoadError(c)) /\ UNCHANGED <<viewerVars, shapeVars>>
    \/ Render /\ UNCHANGED <<viewerVars, shapeVars>>
    \/ handleVisualizeClick /\ UNCHANGED <<viewerVars, shapeVars>>

Spec == Init /\ [][Next]_vars

----------------------------------------------------------------------------
(* The layout on its own: the operands are typed, the texture is loaded, and  *)
(* the Visualize button is clicked.                                          *)

LayoutInit ==
    \E a \in 0..MaxCount1, b \in 0..MaxCount2 :
        /\ number1 = Str(NumberToString(Num(a)))
        /\ number2 = Str(NumberToString(Num(b)))
        /\ textureLoaded = TRUE
        /\ rendered = Closure(number1, number2, TRUE)
        /\ mounted = TRUE
        /\ sceneRef = "scene"
        /\ textureRef = "disposed"
        /\ shapeMeshes = <<>>
        /\ sceneMeshes = <<>>
        /\ loads = SetToBag({rendered})
        /\ lastCall = NoCall
        /\ lastAlert = "none"
        /\ ViewerUnmounted
    /\ ShapesUnmounted
        /\ navigatorXR = FALSE

LayoutNext == handleVisualizeClick /\ UNCHANGED <<viewerVars, shapeVars>>

LayoutSpec == LayoutInit /\ [][LayoutNext]_vars

----------------------------------------------------------------------------
(* The cube viewer without VR (src/unnamed/part_002)                        *)

\* the WebXR state, which this viewer does not have
xrVars == <<navigatorXR, xrRequest, xrSession, isPresenting, animationLoop,
            endListener, sessions, message>>

Position(x, y) == [x |-> x, y |-> y]

\* event.clientX and event.clientY, touch.clientX and touch.clientY
Coords == {0, 1}

\* event.touches.length
TouchCounts == {1, 2}

\* event.touches: one finger anywhere, or two, whose positions no handler reads
Touches ==
    {[n |-> 1, x |-> x, y |-> y] : x \in Coords, y \in Coords}
        \cup {[n |-> 2, x |-> 0, y |-> 0]}

\* rotation.x += 0.005; rotation.y += 0.005
AutoRotateNone(rotation) == rotation

AutoRotate(rotation) ==
    [x |-> AngAdd(rotation.x, AutoRotateStep), y |-> AngAdd(rotation.y, AutoRotateStep)]

\* rotation.y += deltaMove.x * 0.01; rotation.x += deltaMove.y * 0.01
DragRotateSwapped(rotation, from, to) ==
    [x |-> AngAdd(rotation.x, AngMulInt(to.x - from.x, DragFactor)),
     y |-> AngAdd(rotation.y, AngMulInt(to.y - from.y, DragFactor))]

DragRotate(rotation, from, to) ==
    [x |-> AngAdd(rotation.x, AngMulInt(to.y - from.y, DragFactor)),
     y |-> AngAdd(rotation.y, AngMulInt(to.x - from.x, DragFactor))]

\* handleResize(): camera aspect and renderer size follow the container
handleResize(size) ==
    IF rendererRef' # "null" /\ effect' = "mounted"
    THEN [aspect |-> size, size |-> size]
    ELSE canvas

\* the body of animate after requestAnimationFrame(animate)
animateBodySpinning(dragging, cube, rotation) ==
    IF cube # "null" THEN AutoRotate(rotation) ELSE rotation

animateBody(dragging, cube, rotation) ==
    IF ~dragging /\ cube # "null" THEN AutoRotate(rotation) ELSE rotation

\* the setup effect: renderer, scene, camera and cube are made, animate() is
\* called once, and the listeners are registered
CubeSetup ==
    /\ effect = "unmounted"
    /\ effect' = "mounted"
    /\ rendererRef' = "renderer"
    /\ canvas' = handleResize(windowSize)
    /\ cubeRef' = "cube"
    /\ rafLoops' = [rafLoops EXCEPT !.animate = 1]
    /\ cubeRotation' = animateBody(isDragging, "cube", cubeRotation)
    /\ listening' = TRUE
    /\ UNCHANGED <<isDragging, previousMousePosition, windowSize, frames, moves,
                   dragStart, xrVars, sumVars, shapeVars>>

\* an animation frame calls animate
animate ==
    /\ rafLoops.animate > 0
    /\ frames < MaxFrames
    /\ frames' = frames + 1
    /\ cubeRotation' = animateBody(isDragging, cubeRef, cubeRotation)
    /\ UNCHANGED <<effect, rendererRef, cubeRef, isDragging, previousMousePosition,
                   listening, rafLoops, windowSize, canvas, moves, dragStart,
                   xrVars, sumVars, shapeVars>>

onMouseDown(x, y) ==
    /\ listening
    /\ isDragging' = TRUE
    /\ previousMousePosition' = Position(x, y)
    /\ dragStart' = [on |-> TRUE, x |-> x, y |-> y, rotation |-> cubeRotation]
    /\ UNCHANGED <<effect, rendererRef, cubeRef, cubeRotation, listening, rafLoops,
                   windowSize, canvas, frames, moves, xrVars, sumVars, shapeVars>>

onMouseUp ==
    /\ listening
    /\ isDragging' = FALSE
    /\ dragStart' = NoDrag
    /\ UNCHANGED <<effect, rendererRef, cubeRef, cubeRotation, previousMousePosition,
                   listening, rafLoops, windowSize, canvas, frames, moves, xrVars,
                   sumVars, shapeVars>>

onMouseMoveAlways(x, y) ==
    /\ listening
    /\ moves < MaxMoves
    /\ moves' = moves + 1
    /\ cubeRotation' = IF cubeRef # "null"
                       THEN DragRotate(cubeRotation, previousMousePosition, Position(x, y))
                       ELSE cubeRotation
    /\ previousMousePosition' = Position(x, y)
    /\ UNCHANGED <<effect, rendererRef, cubeRef, isDragging, listening, rafLoops,
                   windowSize, canvas, frames, dragStart, xrVars, sumVars, shapeVars>>

onMouseMove(x, y) ==
    /\ listening
    /\ moves < MaxMoves
    /\ moves' = moves + 1
    /\ IF ~isDragging
       THEN UNCHANGED <<cubeRotation, previousMousePosition>>
       ELSE /\ cubeRotation' =
                   IF cubeRef # "null"
                   THEN DragRotate(cubeRotation, previousMousePosition, Position(x, y))
                   ELSE cubeRotation
            /\ previousMousePosition' = Position(x, y)
    /\ UNCHANGED <<effect, rendererRef, cubeRef, isDragging, listening, rafLoops,
                   windowSize, canvas, frames, dragStart, xrVars, sumVars, shapeVars>>

onTouchStart(n, x, y) ==
    /\ listening
    /\ IF n = 1
       THEN /\ isDragging' = TRUE
            /\ previousMousePosition' = Position(x, y)
       ELSE UNCHANGED <<isDragging, previousMousePosition>>
    /\ dragStart' = NoDrag
    /\ UNCHANGED <<effect, rendererRef, cubeRef, cubeRotation, listening, rafLoops,
                   windowSize, canvas, frames, moves, xrVars, sumVars, shapeVars>>

onTouchEnd ==
    /\ listening
    /\ isDragging' = FALSE
    /\ dragStart' = NoDrag
    /\ UNCHANGED <<effect, rendererRef, cubeRef, cubeRotation, previousMousePosition,
                   listening, rafLoops, windowSize, canvas, frames, moves, xrVars,
                   sumVars, shapeVars>>

onTouchMove(n, x, y) ==
    /\ listening
    /\ moves < MaxMoves
    /\ moves' = moves + 1
    /\ IF ~isDragging \/ n # 1
       THEN UNCHANGED <<cubeRotation, previousMousePosition>>
       ELSE /\ cubeRotation' =
                   IF cubeRef # "null"
                   THEN DragRotate(cubeRotation, previousMousePosition, Position(x, y))
                   ELSE cubeRotation
            /\ previousMousePosition' = Position(x, y)
    /\ dragStart' = NoDrag
    /\ UNCHANGED <<effect, rendererRef, cubeRef, isDragging, listening, rafLoops,
                   windowSize, canvas, frames, xrVars, sumVars, shapeVars>>

\* the window is resized to size and the 'resize' listener runs
onResize(size) ==
    /\ listening
    /\ size # windowSize
    /\ windowSize' = size
    /\ UNCHANGED <<effect, rendererRef>>
    /\ canvas' = handleResize(size)
    /\ UNCHANGED <<cubeRef, cubeRotation, isDragging, previousMousePosition,
                   listening, rafLoops, frames, moves, dragStart, xrVars, sumVars, shapeVars>>

\* the cleanup of the setup effect at unmount: the canvas and the listeners are
\* removed and the renderer is disposed
CubeCleanup ==
    /\ effect = "mounted"
    /\ effect' = "cleaned"
    /\ listening' = FALSE
    /\ rendererRef' = "disposed"
    /\ UNCHANGED <<cubeRef, cubeRotation, isDragging, previousMousePosition,
                   rafLoops, windowSize, canvas, frames, moves, dragStart, xrVars,
                   sumVars, shapeVars>>

WindowSizes == {1, 2}

CubeNext ==
    \/ CubeSetup
    \/ animate
    \/ \E x \in Coords, y \in Coords : onMouseDown(x, y)
    \/ onMouseUp
    \/ \E x \in Coords, y \in Coords : onMouseMove(x, y)
    \/ \E t \in Touches : onTouchStart(t.n, t.x, t.y)
    \/ onTouchEnd
    \/ \E t \in Touches : onTouchMove(t.n, t.x, t.y)
    \/ \E size \in WindowSizes : onResize(size)
    \/ CubeCleanup

CubeSpec == Init /\ [][CubeNext]_vars

----------------------------------------------------------------------------
(* The cube viewer with WebXR (src/unnamed/part_003) *)

\* handleResize(): nothing while the renderer presents in VR, and nothing once
\* mountRef.current is null
handleResizeXRPresenting(renderer, mountedNow, presenting, size) ==
    IF renderer # "null" /\ mountedNow
    THEN [aspect |-> size, size |-> size]
    ELSE canvas

handleResizeXR(renderer, mountedNow, presenting, size) ==
    IF renderer # "null" /\ mountedNow /\ ~presenting
    THEN [aspect |-> size, size |-> size]
    ELSE canvas

\* the setup effect
XRSetup ==
    /\ effect = "unmounted"
    /\ effect' = "mounted"
    /\ rendererRef' = "renderer"
    /\ canvas' = handleResizeXR("renderer", TRUE, isPresenting, windowSize)
    /\ cubeRef' = "cube"
    /\ rafLoops' = [rafLoops EXCEPT !.animate = 1]
    /\ cubeRotation' = animateBody(isDragging, "cube", cubeRotation)
    /\ listening' = TRUE
    /\ UNCHANGED <<isDragging, previousMousePosition, windowSize, frames, moves,
                   dragStart, xrVars, sumVars, shapeVars>>

\* an animation frame calls animate, which nothing cancels
animateXR ==
    /\ rafLoops.animate > 0
    /\ frames < MaxXRFrames
    /\ frames' = frames + 1
    /\ cubeRotation' = animateBody(isDragging, cubeRef, cubeRotation)
    /\ UNCHANGED <<effect, rendererRef, cubeRef, isDragging, previousMousePosition,
                   listening, rafLoops, windowSize, canvas, moves, dragStart,
                   xrVars, sumVars, shapeVars>>

\* an animation frame calls one of the animateNonVR loops started by 'end'
\* listeners
animateNonVR ==
    /\ rafLoops.animateNonVR > 0
    /\ frames < MaxXRFrames
    /\ frames' = frames + 1
    /\ cubeRotation' = animateBody(isDragging, cubeRef, cubeRotation)
    /\ UNCHANGED <<effect, rendererRef, cubeRef, isDragging, previousMousePosition,
                   listening, rafLoops, windowSize, canvas, moves, dragStart,
                   xrVars, sumVars, shapeVars>>

\* a frame of the loop given to setAnimationLoop in enterVR: it rotates the
\* cube whether or not a drag is going on
animationLoopFrame ==
    /\ animationLoop = "xrLoop"
    /\ frames < MaxXRFrames
    /\ frames' = frames + 1
    /\ cubeRotation' = IF cubeRef # "null" THEN AutoRotate(cubeRotation) ELSE cubeRotation
    /\ UNCHANGED <<effect, rendererRef, cubeRef, isDragging, previousMousePosition,
                   listening, rafLoops, windowSize, canvas, moves, dragStart,
                   xrVars, sumVars, shapeVars>>

onMouseDownXR(x, y) ==
    /\ listening
    /\ IF ~isPresenting
       THEN /\ isDragging' = TRUE
            /\ previousMousePosition' = Position(x, y)
       ELSE UNCHANGED <<isDragging, previousMousePosition>>
    /\ UNCHANGED <<effect, rendererRef, cubeRef, cubeRotation, listening, rafLoops,
                   windowSize, canvas, frames, moves, dragStart, xrVars, sumVars, shapeVars>>

onMouseUpXR ==
    /\ listening
    /\ isDragging' = IF ~isPresenting THEN FALSE ELSE isDragging
    /\ UNCHANGED <<effect, rendererRef, cubeRef, cubeRotation, previousMousePosition,
                   listening, rafLoops, windowSize, canvas, frames, moves, dragStart,
                   xrVars, sumVars, shapeVars>>

onMouseMoveXR(x, y) ==
    /\ listening
    /\ moves < MaxXRMoves
    /\ moves' = moves + 1
    /\ IF ~isPresenting /\ isDragging
       THEN /\ cubeRotation' =
                   IF cubeRef # "null"
                   THEN DragRotate(cubeRotation, previousMousePosition, Position(x, y))
                   ELSE cubeRotation
            /\ previousMousePosition' = Position(x, y)
       ELSE UNCHANGED <<cubeRotation, previousMousePosition>>
    /\ UNCHANGED <<effect, rendererRef, cubeRef, isDragging, listening, rafLoops,
                   windowSize, canvas, frames, dragStart, xrVars, sumVars, shapeVars>>

onTouchStartXR(n, x, y) ==
    /\ listening
    /\ IF ~isPresenting /\ n = 1
       THEN /\ isDragging' = TRUE
            /\ previousMousePosition' = Position(x, y)
       ELSE UNCHANGED <<isDragging, previousMousePosition>>
    /\ UNCHANGED <<effect, rendererRef, cubeRef, cubeRotation, listening, rafLoops,
                   windowSize, canvas, frames, moves, dragStart, xrVars, sumVars, shapeVars>>

onTouchEndXR ==
    /\ listening
    /\ isDragging' = IF ~isPresenting THEN FALSE ELSE isDragging
    /\ UNCHANGED <<effect, rendererRef, cubeRef, cubeRotation, previousMousePosition,
                   listening, rafLoops, windowSize, canvas, frames, moves, dragStart,
                   xrVars, sumVars, shapeVars>>

onTouchMoveXR(n, x, y) ==
    /\ listening
    /\ moves < MaxXRMoves
    /\ moves' = moves + 1
    /\ IF ~isPresenting /\ isDragging /\ n = 1
       THEN /\ cubeRotation' =
                   IF cubeRef # "null"
                   THEN DragRotate(cubeRotation, previousMousePosition, Position(x, y))
                   ELSE cubeRotation
            /\ previousMousePosition' = Position(x, y)
       ELSE UNCHANGED <<cubeRotation, previousMousePosition>>
    /\ UNCHANGED <<effect, rendererRef, cubeRef, isDragging, listening, rafLoops,
                   windowSize, canvas, frames, dragStart, xrVars, sumVars, shapeVars>>

\* the window is resized: the 'resize' listener is handleResize
onResizeXR(size) ==
    /\ size # windowSize
    /\ windowSize' = size
    /\ canvas' = IF listening
                 THEN handleResizeXR(rendererRef, effect = "mounted", isPresenting, size)
                 ELSE canvas
    /\ UNCHANGED <<effect, rendererRef, cubeRef, cubeRotation, isDragging,
                   previousMousePosition, listening, rafLoops, frames, moves,
                   dragStart, xrVars, sumVars, shapeVars>>

\* a click on 'Enter VR', up to the await: the button exists while the
\* component is rendered, before the setup effect has run too
enterVR ==
    /\ effect # "cleaned"
    /\ IF rendererRef = "null"
       THEN UNCHANGED <<xrRequest, message>>
       ELSE IF navigatorXR
            THEN /\ xrRequest = "none"
                 /\ xrRequest' = "pending"
                 /\ UNCHANGED message
            ELSE /\ message' = "unsupported"
                 /\ UNCHANGED xrRequest
    /\ UNCHANGED <<effect, rendererRef, cubeRef, cubeRotation, isDragging,
                   previousMousePosition, listening, rafLoops, windowSize, canvas,
                   frames, moves, dragStart, navigatorXR, xrSession, isPresenting,
                   animationLoop, endListener, sessions, sumVars, shapeVars>>

\* setMessage has no effect once the component is unmounted
setMessage(text) == IF effect = "cleaned" THEN message ELSE text

\* requestSession resolves, and enterVR runs on from the await: setSession,
\* setAnimationLoop and the 'end' listener, on whatever rendererRef holds now
requestSessionResolved ==
    /\ xrRequest = "pending"
    /\ xrSession = "none"
    /\ sessions < MaxSessions
    /\ sessions' = sessions + 1
    /\ xrRequest' = "none"
    /\ xrSession' = "attached"
    /\ message' = setMessage("welcome")
    /\ animationLoop' = "xrLoop"
    /\ endListener' = TRUE
    /\ UNCHANGED <<effect, rendererRef, cubeRef, cubeRotation, isDragging,
                   previousMousePosition, listening, rafLoops, windowSize, canvas,
                   frames, moves, dragStart, navigatorXR, isPresenting, sumVars, shapeVars>>

\* requestSession rejects: the catch block
requestSessionRejectedQuiet ==
    /\ xrRequest = "pending"
    /\ xrRequest' = "none"
    /\ UNCHANGED message
    /\ UNCHANGED <<effect, rendererRef, cubeRef, cubeRotation, isDragging,
                   previousMousePosition, listening, rafLoops, windowSize, canvas,
                   frames, moves, dragStart, navigatorXR, xrSession, isPresenting,
                   animationLoop, endListener, sessions, sumVars, shapeVars>>

requestSessionRejected ==
    /\ xrRequest = "pending"
    /\ xrRequest' = "none"
    /\ message' = setMessage("failed")
    /\ UNCHANGED <<effect, rendererRef, cubeRef, cubeRotation, isDragging,
                   previousMousePosition, listening, rafLoops, windowSize, canvas,
                   frames, moves, dragStart, navigatorXR, xrSession, isPresenting,
                   animationLoop, endListener, sessions, sumVars, shapeVars>>

\* three.js finishes setSession: the renderer presents
sessionStart ==
    /\ xrSession = "attached"
    /\ xrSession' = "presenting"
    /\ isPresenting' = TRUE
    /\ UNCHANGED <<effect, rendererRef, cubeRef, cubeRotation, isDragging,
                   previousMousePosition, listening, rafLoops, windowSize, canvas,
                   frames, moves, dragStart, navigatorXR, xrRequest, message,
                   animationLoop, endListener, sessions, sumVars, shapeVars>>

\* the session ends: three.js's own 'end' listener, registered by setSession
\* before the viewer's, has reset isPresenting when the viewer's listener runs
sessionEndKeepsLoop ==
    /\ xrSession # "none"
    /\ endListener
    /\ xrSession' = "none"
    /\ endListener' = FALSE
    /\ isPresenting' = FALSE
    /\ message' = setMessage("ended")
    /\ UNCHANGED animationLoop
    /\ rafLoops' = [rafLoops EXCEPT !.animateNonVR = @ + 1]
    /\ cubeRotation' = animateBody(isDragging, cubeRef, cubeRotation)
    /\ canvas' = handleResizeXR(rendererRef, effect = "mounted", FALSE, windowSize)
    /\ UNCHANGED <<effect, rendererRef, cubeRef, isDragging, previousMousePosition,
                   listening, windowSize, frames, moves, dragStart, navigatorXR,
                   xrRequest, sessions, sumVars, shapeVars>>

sessionEnd ==
    /\ xrSession # "none"
    /\ endListener
    /\ xrSession' = "none"
    /\ endListener' = FALSE
    /\ isPresenting' = FALSE
    /\ message' = setMessage("ended")
    /\ animationLoop' = "null"
    /\ rafLoops' = [rafLoops EXCEPT !.animateNonVR = @ + 1]
    /\ cubeRotation' = animateBody(isDragging, cubeRef, cubeRotation)
    /\ canvas' = handleResizeXR(rendererRef, effect = "mounted", FALSE, windowSize)
    /\ UNCHANGED <<effect, rendererRef, cubeRef, isDragging, previousMousePosition,
                   listening, windowSize, frames, moves, dragStart, navigatorXR,
                   xrRequest, sessions, sumVars, shapeVars>>

\* a click on 'Change Message'
changeMessage ==
    /\ effect # "cleaned"
    /\ message # "hello"
    /\ message' = "hello"
    /\ UNCHANGED <<effect, rendererRef, cubeRef, cubeRotation, isDragging,
                   previousMousePosition, listening, rafLoops, windowSize, canvas,
                   frames, moves, dragStart, navigatorXR, xrRequest, xrSession,
                   isPresenting, animationLoop, endListener, sessions, sumVars, shapeVars>>

\* the cleanup of the setup effect at unmount: the listeners are removed,
\* setAnimationLoop(null), and the renderer is disposed; rendererRef keeps the
\* disposed renderer and a running session is not ended
XRCleanup ==
    /\ effect = "mounted"
    /\ effect' = "cleaned"
    /\ listening' = FALSE
    /\ rendererRef' = "disposed"
    /\ animationLoop' = "null"
    /\ UNCHANGED <<cubeRef, cubeRotation, isDragging, previousMousePosition,
                   rafLoops, windowSize, canvas, frames, moves, dragStart,
                   navigatorXR, xrRequest, xrSession, isPresenting, endListener,
                   sessions, message, sumVars, shapeVars>>

XRNext ==
    \/ XRSetup
    \/ animateXR
    \/ animateNonVR
    \/ animationLoopFrame
    \/ \E x \in Coords, y \in Coords : onMouseDownXR(x, y)
    \/ onMouseUpXR
    \/ \E x \in Coords, y \in Coords : onMouseMoveXR(x, y)
    \/ \E t \in Touches : onTouchStartXR(t.n, t.x, t.y)
    \/ onTouchEndXR
    \/ \E t \in Touches : onTouchMoveXR(t.n, t.x, t.y)
    \/ \E size \in WindowSizes : onResizeXR(size)
    \/ enterVR
    \/ requestSessionResolved
    \/ requestSessionRejected
    \/ sessionStart
    \/ sessionEnd
    \/ changeMessage
    \/ XRCleanup

\* the browser may or may not have navigator.xr
XRInit ==
    /\ SumInit
    /\ ViewerUnmounted
    /\ ShapesUnmounted
    /\ navigatorXR \in BOOLEAN

XRSpec == XRInit /\ [][XRNext]_vars

----------------------------------------------------------------------------
(* The viewer with 'Add Another Shape' (src/src/App.js) *)

\* const spacing = 1.5
shapeSpacing == Ang(300, 0)

AngNeg(a) == Ang(-a.t, -a.e)

\* a double divided by 2: exact, and the multiples of 1.5 halved here have
\* even numerators
AngHalf(a) == Ang(a.t \div 2, a.e \div 2)

MeshAt(x) == [x |-> x, y |-> Ang(0, 0), z |-> Ang(0, 0)]

\* addShape: startX = -((index * spacing) / 2); position.set(startX + index * spacing, 0, 0)
newShapePosition(index) ==
    LET startX == AngNeg(AngHalf(AngMulInt(index, shapeSpacing)))
    IN MeshAt(AngAdd(startX, AngMulInt(index, shapeSpacing)))

\* the body of addShape as created by the render that saw shapes.length = index
addShapeBody(index) ==
    /\ sceneShapes' = sceneShapes + 1
    /\ shapeMeshesRef' = Append(shapeMeshesRef, newShapePosition(index))
    /\ shapesState' = Append(shapesState, Len(shapeMeshesRef) + 1)

\* the re-centering effect on the meshes of shapeMeshesRef.current
recenterKeep(meshes) == meshes

recenter(meshes) ==
    IF Len(meshes) > 0
    THEN LET totalWidth == AngMulInt(Len(meshes) - 1, shapeSpacing)
             startX == AngHalf(AngNeg(totalWidth))
         IN [i \in 1..Len(meshes) |->
                MeshAt(AngAdd(startX, AngMulInt(i - 1, shapeSpacing)))]
    ELSE meshes

\* the effects of the first render, in the order of their declaration: the
\* setup effect, which calls addShape(), and the re-centering effect
AppSetup ==
    /\ effect = "unmounted"
    /\ effect' = "mounted"
    /\ rendererRef' = "renderer"
    /\ canvas' = [aspect |-> windowSize, size |-> windowSize]
    /\ sceneShapes' = sceneShapes + 1
    /\ shapeMeshesRef' = recenter(Append(shapeMeshesRef, newShapePosition(shapesLength)))
    /\ shapesState' = Append(shapesState, Len(shapeMeshesRef) + 1)
    /\ recentered' = shapesLength
    /\ rafLoops' = [rafLoops EXCEPT !.animate = 1]
    /\ listening' = TRUE
    /\ UNCHANGED <<cubeRef, cubeRotation, isDragging, previousMousePosition,
                   windowSize, frames, moves, dragStart, xrVars, sumVars,
                   shapesLength, clicks>>

\* a click on 'Add Another Shape': addShape of the last render
addShape ==
    /\ effect = "mounted"
    /\ clicks < MaxClicks
    /\ clicks' = clicks + 1
    /\ addShapeBody(shapesLength)
    /\ UNCHANGED <<viewerVars, sumVars, shapesLength, recentered>>

\* React renders again with the new shapes state, after the effects of the
\* last render have run
AppRender ==
    /\ effect = "mounted"
    /\ recentered = shapesLength
    /\ shapesLength # Len(shapesState)
    /\ shapesLength' = Len(shapesState)
    /\ UNCHANGED <<viewerVars, sumVars, shapesState, shapeMeshesRef, sceneShapes,
                   recentered, clicks>>

\* the re-centering effect runs after a render whose shapes.length differs
\* from the last one it ran for
Recenter ==
    /\ effect = "mounted"
    /\ recentered # shapesLength
    /\ recentered' = shapesLength
    /\ shapeMeshesRef' = recenter(shapeMeshesRef)
    /\ UNCHANGED <<viewerVars, sumVars, shapesState, shapesLength, sceneShapes, clicks>>

\* the cleanup of the setup effect at unmount: the meshes are removed from the
\* scene and the ref is cleared
AppCleanup ==
    /\ effect = "mounted"
    /\ effect' = "cleaned"
    /\ listening' = FALSE
    /\ rendererRef' = "disposed"
    /\ sceneShapes' = sceneShapes - Len(shapeMeshesRef)
    /\ shapeMeshesRef' = <<>>
    /\ UNCHANGED <<cubeRef, cubeRotation, isDragging, previousMousePosition,
                   rafLoops, windowSize, canvas, frames, moves, dragStart, xrVars,
                   sumVars, shapesState, shapesLength, recentered, clicks>>

AppNext ==
    \/ AppSetup
    \/ addShape
    \/ AppRender
    \/ Recenter
    \/ AppCleanup

AppSpec == Init /\ [][AppNext]_vars

----------------------------------------------------------------------------
(* Properties *)

IsNonNegInt(v) == v.t = "number" /\ ~v.nan /\ v.n >= 0

\* shapeMeshes is the result of addShapesForEquation(count1, count2) on two
\* non-negative integers, with scene and texture ready
LayoutDone ==
    /\ lastCall.made
    /\ lastCall.ready
    /\ IsNonNegInt(lastCall.num1)
    /\ IsNonNegInt(lastCall.num2)

count1 == lastCall.num1.n
count2 == lastCall.num2.n

ShapeIndexSet == 1..Len(shapeMeshes)

BlocksUsed == {shapeMeshes[i].block : i \in ShapeIndexSet}

UnitsInBlock(b) == {i \in ShapeIndexSet : shapeMeshes[i].block = b}

LastBlockUsed == CHOOSE b \in BlocksUsed : \A c \in BlocksUsed : c <= b

XValues == {shapeMeshes[i].x : i \in ShapeIndexSet}

MinX == CHOOSE v \in XValues : \A w \in XValues : FLeq(v, w)

MaxX == CHOOSE v \in XValues : \A w \in XValues : FLeq(w, v)

\* C1: a layout computed for integers count1, count2 >= 0 with scene and texture
\* ready leaves exactly count1 + count2 entries in the shape list.
C1_ShapeCount == LayoutDone => Len(shapeMeshes) = count1 + count2

C1_Witness ==
    /\ LayoutDone
    /\ count1 = 130
    /\ count2 = 3
    /\ Len(shapeMeshes) = 133

\* C2: the unit at index i is orange (FIRST) exactly when i < count1, and blue
\* (SECOND) otherwise.
C2_GroupTags ==
    LayoutDone =>
        \A i \in ShapeIndexSet :
            /\ shapeMeshes[i].color \in {orangeColor, blueColor}
            /\ (shapeMeshes[i].color = orangeColor) <=> (i - 1 < count1)

C2_Witness ==
    /\ LayoutDone
    /\ count1 = 3
    /\ count2 = 2
    /\ shapeMeshes[3].color = orangeColor
    /\ shapeMeshes[4].color = blueColor

\* C3: for the layout of (5, 0) the X coordinates are symmetric about 0: for
\* every unit at X = v there is a unit at X = -v.
C3_FiveSymmetric ==
    (LayoutDone /\ count1 = 5 /\ count2 = 0) =>
        \A v \in XValues : FNeg(v) \in XValues

\* C4: for count1 + count2 >= 1 the smallest and the largest final X are
\* negatives of each other.
C4_CenteredOnX ==
    (LayoutDone /\ count1 + count2 >= 1 /\ Len(shapeMeshes) >= 1) =>
        FAdd(MinX, MaxX) = FromInt(0)

\* C5: unit i is placed in block floor(i/125) at index i mod 125; no two units
\* share a (block, index) pair, every index lies in 0..124, every block but the
\* last holds exactly 125 units and the last holds at least 1.
C5_BlockAssignment ==
    LayoutDone =>
        /\ \A i \in ShapeIndexSet :
               /\ shapeMeshes[i].block = (i - 1) \div 125
               /\ shapeMeshes[i].index = (i - 1) % 125
               /\ shapeMeshes[i].index \in 0..124
        /\ Cardinality({<<shapeMeshes[i].block, shapeMeshes[i].index>> : i \in ShapeIndexSet})
               = Len(shapeMeshes)
        /\ \A b \in BlocksUsed :
               IF b = LastBlockUsed
               THEN Cardinality(UnitsInBlock(b)) \in 1..125
               ELSE Cardinality(UnitsInBlock(b)) = 125

C5_Witness ==
    /\ LayoutDone
    /\ Len(shapeMeshes) = 254
    /\ BlocksUsed = {0, 1, 2}
    /\ Cardinality(UnitsInBlock(1)) = 125
    /\ Cardinality(UnitsInBlock(2)) = 4

\* C6: a layout uses ceil((count1 + count2) / 125) distinct blocks: none for
\* (0, 0), exactly one for (125, 0), and two for (126, 0), the second holding
\* exactly 1 unit.
C6_BlockCount ==
    LayoutDone =>
        /\ Cardinality(BlocksUsed) = (count1 + count2 + 124) \div 125
        /\ (count1 + count2 = 0) => shapeMeshes = <<>>
        /\ (count1 = 125 /\ count2 = 0) =>
               (BlocksUsed = {0} /\ Cardinality(UnitsInBlock(0)) = 125)
        /\ (count1 = 126 /\ count2 = 0) =>
               (BlocksUsed = {0, 1} /\ Cardinality(UnitsInBlock(1)) = 1)

C6_Witness ==
    /\ LayoutDone
    /\ count1 = 126
    /\ count2 = 0
    /\ BlocksUsed = {0, 1}
    /\ Cardinality(UnitsInBlock(1)) = 1

\* C7: cells are assigned row-major, X fastest, then Y, then Z: every cell
\* coordinate lies in 0..4 and index = xCell + 5*yCell + 25*zCell.
C7_RowMajorCells ==
    LayoutDone =>
        \A i \in ShapeIndexSet :
            /\ shapeMeshes[i].xCell \in 0..4
            /\ shapeMeshes[i].yCell \in 0..4
            /\ shapeMeshes[i].zCell \in 0..4
            /\ shapeMeshes[i].index =
                   shapeMeshes[i].xCell + 5 * shapeMeshes[i].yCell
                   + 25 * shapeMeshes[i].zCell

C7_Witness ==
    /\ LayoutDone
    /\ Len(shapeMeshes) >= 125
    /\ shapeMeshes[6].xCell = 0 /\ shapeMeshes[6].yCell = 1 /\ shapeMeshes[6].zCell = 0
    /\ shapeMeshes[26].xCell = 0 /\ shapeMeshes[26].yCell = 0 /\ shapeMeshes[26].zCell = 1
    /\ shapeMeshes[125].xCell = 4 /\ shapeMeshes[125].yCell = 4 /\ shapeMeshes[125].zCell = 4

\* C8: for a total >= 1, columnsInLastBlock equals the number of distinct xCell
\* values occupied by the units of the last block.
C8_ColumnsOccupied ==
    (LayoutDone /\ Len(shapeMeshes) >= 1) =>
        columnsInLastBlock(totalShapes(lastCall.num1, lastCall.num2))
            = Cardinality({shapeMeshes[i].xCell : i \in UnitsInBlock(LastBlockUsed)})

\* C9: every invocation of addShapesForEquation receives two non-negative
\* integer numbers.
C9_ValidatedOperands ==
    lastCall.made => (IsNonNegInt(lastCall.num1) /\ IsNonNegInt(lastCall.num2))

\* an operand state that holds a non-negative integer: the initial number, or
\* the decimal digits typed into the input
IsNonNegIntOperand(v) ==
    \/ IsNonNegInt(v)
    \/ v.t = "string" /\ Len(v.s) > 0 /\ AllDigits(v.s)

\* every texture load has called back, every render has committed, and the
\* texture is loaded
Settled ==
    /\ mounted
    /\ loads = EmptyBag
    /\ ~RenderPending
    /\ textureLoaded

\* C10: after an operand input changed to non-negative integers a and b and the
\* recomputation has finished, the scene shows exactly a + b units, the first a
\* of them orange (FIRST).
C10_RecomputedOnChange ==
    (/\ Settled
     /\ number1.t = "string" \/ number2.t = "string"
     /\ IsNonNegIntOperand(number1)
     /\ IsNonNegIntOperand(number2)) =>
        /\ Len(shapeMeshes) = ToNumber(number1).n + ToNumber(number2).n
        /\ \A i \in ShapeIndexSet :
               (shapeMeshes[i].color = orangeColor) <=> (i - 1 < ToNumber(number1).n)

\* C11: the shape list and the shape meshes in the scene are exactly the units
\* of the most recent computation (none after a cleanup or a computation that
\* found scene or texture not ready), never units left over from an earlier one.
C11_Supersedes ==
    /\ sceneMeshes = shapeMeshes
    /\ shapeMeshes = IF lastCall.made /\ lastCall.ready
                     THEN LayoutShapes(lastCall.num1, lastCall.num2)
                     ELSE <<>>

\* a Visualize click for (7, 0) replaced the 70 cubes the load callback of the
\* current effect run had built for (7, "0")
C11_Witness ==
    /\ rendered = Closure(Num(7), Str(<<"0">>), TRUE)
    /\ loads = EmptyBag
    /\ textureRef = "texture"
    /\ lastAlert = "none"
    /\ lastCall = Call(Num(7), Num(0), TRUE)
    /\ Len(shapeMeshes) = 7
    /\ sceneMeshes = shapeMeshes

\* C12: after a texture load error has been reported, a new texture load is
\* started only by a user action (a change of one of the two numbers).
C12_NoAutomaticRetry ==
    [][(/\ lastAlert = "loadFailed"
        /\ ~textureLoaded
        /\ BagCardinality(loads') > BagCardinality(loads))
       => (number1' # number1 \/ number2' # number2)]_vars

\* the operands of the committed render do not pass the check of
\* handleVisualizeClick, or that render saw the texture as not loaded
InvalidRequest ==
    LET num1 == parseInt(rendered.number1)
        num2 == parseInt(rendered.number2)
    IN  \/ isNaN(num1) \/ isNaN(num2)
        \/ JSLess(num1, Num(0)) \/ JSLess(num2, Num(0))
        \/ ~rendered.textureLoaded

\* C13: a Visualize click whose operand parses to NaN or to a negative number, or
\* whose render saw the texture as not loaded, alerts the user and leaves the
\* shape list, the scene and the record of the last computation unchanged.
C13_InvalidRequestKeepsScene ==
    [][(handleVisualizeClick /\ InvalidRequest)
       => (/\ lastAlert' \in {"invalidNumbers", "textureNotLoaded"}
           /\ shapeMeshes' = shapeMeshes
           /\ sceneMeshes' = sceneMeshes
           /\ lastCall' = lastCall)]_vars

\* an empty first input was rejected while the scene holds the 9 cubes that the
\* load callback built for ("", 9)
C13_Witness ==
    /\ lastAlert = "invalidNumbers"
    /\ rendered = Closure(Str(<<>>), Num(9), TRUE)
    /\ isNaN(parseInt(rendered.number1))
    /\ lastCall = Call(Str(<<>>), Num(9), TRUE)
    /\ Len(shapeMeshes) = 9
    /\ sceneMeshes = shapeMeshes

\* C14: computing the layout again with the operands of the last computation
\* gives the same sequence of units (length, tint and X, Y, Z at every index),
\* and leaves the scene with one copy of it.
C14_Idempotent ==
    LayoutDone =>
        LET again == addShapesForEquation(lastCall.num1, lastCall.num2, TRUE,
                                          sceneRef, textureRef, shapeMeshes)
        IN  /\ again = shapeMeshes
            /\ sceneAddShapes(sceneRef, sceneMeshes, shapeMeshes, again) = sceneMeshes
            /\ Len(sceneMeshes) = count1 + count2

C14_Witness ==
    /\ LayoutDone
    /\ count1 = 127
    /\ count2 = 2
    /\ Len(sceneMeshes) = 129
    /\ sceneMeshes[129].block = 1
    /\ sceneMeshes = shapeMeshes

\* 2^-52, the spacing of the doubles between 1 and 2
Ulp1 == Dbl(0, 5)

\* the doubles x and y differ by at most n times 2^-52
Within(x, y, n) == FLeq(FAbs(Dbl(x.t - y.t, x.e - y.e)), Dbl(0, 5 * n))

\* C15 as stated: for every unit, Y = (yCell - 2) * spacing and
\* Z = (zCell - 2) * spacing as doubles.
C15_ExactLattice ==
    LayoutDone =>
        \A i \in ShapeIndexSet :
            /\ shapeMeshes[i].y = FMulInt(shapeMeshes[i].yCell - 2, spacing)
            /\ shapeMeshes[i].z = FMulInt(shapeMeshes[i].zCell - 2, spacing)

\* C15 amended: Y is a function of yCell alone and Z of zCell alone, whatever
\* the block and the total, and both are within 2^-52 of (cell - 2) * spacing.
C15_CenteredLattice ==
    LayoutDone =>
        /\ \A i \in ShapeIndexSet :
               /\ shapeMeshes[i].y = finalY(5 * shapeMeshes[i].yCell)
               /\ shapeMeshes[i].z = finalZ(25 * shapeMeshes[i].zCell)
               /\ Within(shapeMeshes[i].y, FMulInt(shapeMeshes[i].yCell - 2, spacing), 1)
               /\ Within(shapeMeshes[i].z, FMulInt(shapeMeshes[i].zCell - 2, spacing), 1)
        /\ Cardinality({<<shapeMeshes[i].yCell, shapeMeshes[i].y>> : i \in ShapeIndexSet})
               = Cardinality({shapeMeshes[i].yCell : i \in ShapeIndexSet})
        /\ Cardinality({<<shapeMeshes[i].zCell, shapeMeshes[i].z>> : i \in ShapeIndexSet})
               = Cardinality({shapeMeshes[i].zCell : i \in ShapeIndexSet})

\* the unit at cell (3, 3, 3) of the second block: Y and Z are one rounding step
\* below spacing
C15_Witness ==
    /\ LayoutDone
    /\ Len(shapeMeshes) >= 219
    /\ shapeMeshes[219].block = 1
    /\ shapeMeshes[219].yCell = 3
    /\ shapeMeshes[219].zCell = 3
    /\ shapeMeshes[219].y = FSub(spacing, Ulp1)
    /\ shapeMeshes[219].z = shapeMeshes[219].y
    /\ shapeMeshes[219].y = shapeMeshes[94].y

\* x + y as a real number, not rounded to a double
ExactSum(x, y) == Dbl(x.t + y.t, x.e + y.e)

\* the units with a unit 125 indices later in the layout
WithNextBlockUnit == {i \in ShapeIndexSet : i + 125 <= Len(shapeMeshes)}

XValuesOfBlock(b) == {shapeMeshes[i].x : i \in UnitsInBlock(b)}

\* C16 as stated: unit i + 125 has the Y and Z of unit i and an X larger by
\* exactly blockSpacingX = 9, and every unit of block b lies strictly left of
\* every unit of block b + 1.
C16_ExactPitch ==
    LayoutDone =>
        /\ blockSpacingX = FromInt(9)
        /\ \A i \in WithNextBlockUnit :
               /\ shapeMeshes[i + 125].y = shapeMeshes[i].y
               /\ shapeMeshes[i + 125].z = shapeMeshes[i].z
               /\ shapeMeshes[i + 125].x = ExactSum(shapeMeshes[i].x, blockSpacingX)
        /\ \A b \in BlocksUsed : \A v \in XValuesOfBlock(b) :
               \A w \in XValuesOfBlock(b + 1) : FLess(v, w)

\* C16 amended: blockSpacingX is the double 9; unit i + 125 has the Y and Z of
\* unit i and an X within 8 * 2^-52 of X + 9; every unit of block b lies
\* strictly left of every unit of block b + 1.
C16_BlockPitch ==
    LayoutDone =>
        /\ blockSpacingX = FromInt(9)
        /\ \A i \in WithNextBlockUnit :
               /\ shapeMeshes[i + 125].block = shapeMeshes[i].block + 1
               /\ shapeMeshes[i + 125].y = shapeMeshes[i].y
               /\ shapeMeshes[i + 125].z = shapeMeshes[i].z
               /\ Within(shapeMeshes[i + 125].x,
                         ExactSum(shapeMeshes[i].x, blockSpacingX), 8)
        /\ \A b \in BlocksUsed : \A v \in XValuesOfBlock(b) :
               \A w \in XValuesOfBlock(b + 1) : FLess(v, w)

\* three blocks, the pitch between the first two not exactly 9
C16_Witness ==
    /\ LayoutDone
    /\ BlocksUsed = {0, 1, 2}
    /\ WithNextBlockUnit # {}
    /\ \E i \in WithNextBlockUnit :
           /\ shapeMeshes[i + 125].x # ExactSum(shapeMeshes[i].x, blockSpacingX)
           /\ Within(shapeMeshes[i + 125].x, ExactSum(shapeMeshes[i].x, blockSpacingX), 8)
           /\ FLess(shapeMeshes[i].x, shapeMeshes[i + 125].x)

\* the doubles v and w are at least d apart
AtLeastApart(v, w, d) == FLeq(d, FAbs(Dbl(v.t - w.t, v.e - w.e)))

\* the units i and j are at least d apart along X, Y or Z
ApartOnSomeAxis(i, j, d) ==
    \/ AtLeastApart(shapeMeshes[i].x, shapeMeshes[j].x, d)
    \/ AtLeastApart(shapeMeshes[i].y, shapeMeshes[j].y, d)
    \/ AtLeastApart(shapeMeshes[i].z, shapeMeshes[j].z, d)

\* spacing less 8 * 2^-52
NearSpacing == Dbl(spacing.t, spacing.e - 5 * 8)

\* the pairs <<cell, coordinate>> of a set of units along one axis
CellsX(units) == {<<shapeMeshes[i].xCell, shapeMeshes[i].x>> : i \in units}
CellsY(units) == {<<shapeMeshes[i].yCell, shapeMeshes[i].y>> : i \in units}
CellsZ(units) == {<<shapeMeshes[i].zCell, shapeMeshes[i].z>> : i \in units}

\* different cells of one axis lie at least d apart, and a cell has one coordinate
CellsApart(cells, d) ==
    \A p \in cells : \A q \in cells :
        p # q => (p[1] # q[1] /\ AtLeastApart(p[2], q[2], d))

\* C17 as stated: spacing exceeds the unit size and any two distinct units
\* differ by at least spacing along at least one axis.
C17_SpacingApart ==
    LayoutDone =>
        /\ FLess(boxSize, spacing)
        /\ \A i \in ShapeIndexSet : \A j \in ShapeIndexSet :
               i < j => ApartOnSomeAxis(i, j, spacing)

\* C17 amended: any two distinct units differ by at least spacing - 8 * 2^-52,
\* which exceeds the unit size, along at least one axis.  Two distinct units
\* differ in their block or in a cell coordinate; units of different blocks are
\* that far apart along X, and within a block (X) or anywhere (Y, Z) different
\* cell coordinates are that far apart along their axis.
C17_NoOverlap ==
    LayoutDone =>
        /\ FLess(boxSize, NearSpacing)
        /\ Cardinality({<<shapeMeshes[i].block, shapeMeshes[i].xCell,
                          shapeMeshes[i].yCell, shapeMeshes[i].zCell>> :
                            i \in ShapeIndexSet}) = Len(shapeMeshes)
        /\ Cardinality({<<shapeMeshes[i].x, shapeMeshes[i].y, shapeMeshes[i].z>> :
                            i \in ShapeIndexSet}) = Len(shapeMeshes)
        /\ \A b \in BlocksUsed : CellsApart(CellsX(UnitsInBlock(b)), NearSpacing)
        /\ CellsApart(CellsY(ShapeIndexSet), NearSpacing)
        /\ CellsApart(CellsZ(ShapeIndexSet), NearSpacing)
        /\ \A b \in BlocksUsed : \A c \in BlocksUsed :
               b < c => \A v \in XValuesOfBlock(b) : \A w \in XValuesOfBlock(c) :
                            AtLeastApart(v, w, NearSpacing)

\* two blocks, and two neighbours of a row less than spacing apart
C17_Witness ==
    /\ LayoutDone
    /\ BlocksUsed = {0, 1}
    /\ shapeMeshes[1].y = shapeMeshes[2].y
    /\ shapeMeshes[1].z = shapeMeshes[2].z
    /\ \E i \in {1, 2, 3, 4} :
           /\ ~ApartOnSomeAxis(i, i + 1, spacing)
           /\ ApartOnSomeAxis(i, i + 1, NearSpacing)

\* v is within 8 * 2^-52 of a point of the cell lattice {-2, -1, 0, 1, 2} * spacing
\* of a block centered on the origin
OnCenteredLattice(v) == \E c \in -2..2 : Within(v, FMulInt(c, spacing), 8)

\* C18: the layout of the defaults (7, 9) has 16 units, all in block 0, units
\* 0..6 orange and 7..15 blue, and every coordinate of every unit lies (up to
\* rounding) on the cell lattice of a block centered on the origin.
C18_DefaultScenario ==
    (LayoutDone /\ count1 = 7 /\ count2 = 9) =>
        /\ Len(shapeMeshes) = 16
        /\ \A i \in ShapeIndexSet :
               /\ shapeMeshes[i].block = 0
               /\ shapeMeshes[i].color = (IF i <= 7 THEN orangeColor ELSE blueColor)
               /\ OnCenteredLattice(shapeMeshes[i].x)
               /\ OnCenteredLattice(shapeMeshes[i].y)
               /\ OnCenteredLattice(shapeMeshes[i].z)

\* C19: every texture load success callback that runs while number1 and number2
\* hold non-negative integers leaves number1 + number2 shapes in the scene.
C19_LoadAddsShapes ==
    [][((\E c \in BagToSet(loads) : TextureLoadSuccess(c))
        /\ IsNonNegInt(number1) /\ IsNonNegInt(number2))
       => Len(sceneMeshes') = number1.n + number2.n]_vars

\* C20: once mounted, the setup effect does not run again: no step starts
\* another texture load.  Stated for the steps that leave number1 and number2
\* as they are, which covers every change of textureLoaded.
C20_SetupRunsOnce ==
    [][(mounted /\ number1' = number1 /\ number2' = number2)
       => BagCardinality(loads') <= BagCardinality(loads)]_vars

\* the doubles a and b differ by at most n times 2^-60
AngWithin(a, b, n) == a.t = b.t /\ Abs(a.e - b.e) <= 25 * n

\* C25: in the cube viewer without VR, an animation frame leaves the rotation
\* unchanged while isDragging is true and adds 0.005 (the double, by a double
\* addition) to rotation.x and rotation.y while it is false; a mousemove or
\* touchmove while isDragging is false leaves rotation and
\* previousMousePosition unchanged.
C25_DragSuspendsAutoRotation ==
    [][/\ (animate /\ isDragging) => cubeRotation' = cubeRotation
       /\ (animate /\ ~isDragging) =>
              /\ cubeRotation'.x = AngAdd(cubeRotation.x, Ang(1, 3))
              /\ cubeRotation'.y = AngAdd(cubeRotation.y, Ang(1, 3))
       /\ (/\ ~isDragging
           /\ \/ \E x \in Coords, y \in Coords : onMouseMove(x, y)
              \/ \E t \in Touches : onTouchMove(t.n, t.x, t.y))
          => (/\ cubeRotation' = cubeRotation
              /\ previousMousePosition' = previousMousePosition)]_vars

\* of two frames one ran during a drag and one did not, and a move event came
\* while nothing was dragged: the rotation is the 0.005 of the first animate()
\* call plus 0.005
C25_Witness ==
    /\ effect = "mounted"
    /\ frames = 2
    /\ moves = 1
    /\ ~isDragging
    /\ previousMousePosition = Position(0, 0)
    /\ cubeRotation = [x |-> Ang(2, 6), y |-> Ang(2, 6)]

\* C26 as stated: after a mousedown at (x0, y0) and mousemoves ending at
\* (xn, yn), rotation.y is its value at the mousedown plus 0.01 * (xn - x0),
\* rotation.x that plus 0.01 * (yn - y0), and previousMousePosition is (xn, yn).
C26_NetDisplacement ==
    [][\A x \in Coords, y \in Coords :
          (onMouseMove(x, y) /\ dragStart.on) =>
              /\ previousMousePosition' = Position(x, y)
              /\ cubeRotation'.y = AngAdd(dragStart.rotation.y,
                                          AngMulInt(x - dragStart.x, Ang(2, 6)))
              /\ cubeRotation'.x = AngAdd(dragStart.rotation.x,
                                          AngMulInt(y - dragStart.y, Ang(2, 6)))]_vars

\* C26 amended: the same up to the rounding of the double additions: the
\* rotation is within 8 * 2^-60 of the net displacement's.
C26_NetDisplacementRounded ==
    [][\A x \in Coords, y \in Coords :
          (onMouseMove(x, y) /\ dragStart.on) =>
              /\ previousMousePosition' = Position(x, y)
              /\ AngWithin(cubeRotation'.y,
                           AngAdd(dragStart.rotation.y,
                                  AngMulInt(x - dragStart.x, Ang(2, 6))), 8)
              /\ AngWithin(cubeRotation'.x,
                           AngAdd(dragStart.rotation.x,
                                  AngMulInt(y - dragStart.y, Ang(2, 6))), 8)]_vars

\* a drag there and back: 0.005 + 0.01 - 0.01 is not 0.005
C26_Witness ==
    /\ dragStart.on
    /\ moves = 2
    /\ previousMousePosition = Position(dragStart.x, dragStart.y)
    /\ cubeRotation.y # dragStart.rotation.y
    /\ AngWithin(cubeRotation.y, dragStart.rotation.y, 8)
    /\ cubeRotation.x = dragStart.rotation.x

\* a pointer event or a window resize reaches the WebXR viewer's listeners
XRPointerOrResizeEvent ==
    \/ \E x \in Coords, y \in Coords : onMouseDownXR(x, y)
    \/ onMouseUpXR
    \/ \E x \in Coords, y \in Coords : onMouseMoveXR(x, y)
    \/ \E t \in Touches : onTouchStartXR(t.n, t.x, t.y)
    \/ onTouchEndXR
    \/ \E t \in Touches : onTouchMoveXR(t.n, t.x, t.y)
    \/ \E size \in WindowSizes : onResizeXR(size)

\* C21: after the effect cleanup has run, no animation loop remains active: no
\* callback of animate, of an animateNonVR started by an 'end' listener, or of
\* the loop given to setAnimationLoop runs any more.
C21_NoLoopAfterCleanup ==
    [][effect = "cleaned" => ~(animateXR \/ animateNonVR \/ animationLoopFrame)]_vars

\* C22: when a VR session ends, the XR animation loop is cleared, an
\* animateNonVR loop has been started, which rotates the cube by 0.005 per frame
\* while isDragging is false and not at all while it is true, and handleResize
\* has been applied: the canvas of the mounted viewer has the window's size.
C22_SessionEnd ==
    [][/\ sessionEnd =>
              /\ animationLoop' = "null"
              /\ rafLoops'.animateNonVR = rafLoops.animateNonVR + 1
              /\ effect = "mounted" =>
                     canvas' = [aspect |-> windowSize, size |-> windowSize]
       /\ animateNonVR =>
              cubeRotation' = IF isDragging
                              THEN cubeRotation
                              ELSE [x |-> AngAdd(cubeRotation.x, Ang(1, 3)),
                                    y |-> AngAdd(cubeRotation.y, Ang(1, 3))]]_vars

\* a session has ended after the window was resized: the XR loop is cleared,
\* a loop has run a frame (three times 0.005 with the calls of animate in the
\* setup and of animateNonVR in the listener), and the canvas has the window's
\* size
C22_Witness ==
    /\ effect = "mounted"
    /\ message = "ended"
    /\ animationLoop = "null"
    /\ ~isPresenting
    /\ rafLoops.animateNonVR = 1
    /\ frames = 1
    /\ windowSize = 2
    /\ canvas.size = 2
    /\ cubeRotation.x.t = 3
    /\ cubeRotation.y.t = 3

\* C23: enterVR fails without side effects: with no renderer it returns at once;
\* without navigator.xr, or when requestSession rejects, no session is attached,
\* the animation loop and the 'end' listener are left as they were, and the
\* message tells the user.
C23_EnterVRFails ==
    [][/\ (enterVR /\ rendererRef = "null") =>
              UNCHANGED <<xrRequest, xrSession, isPresenting, animationLoop,
                          endListener, rafLoops, message>>
       /\ (enterVR /\ rendererRef # "null" /\ ~navigatorXR) =>
              /\ UNCHANGED <<xrRequest, xrSession, isPresenting, animationLoop,
                             endListener, rafLoops>>
              /\ message' = "unsupported"
       /\ requestSessionRejected =>
              /\ UNCHANGED <<xrSession, isPresenting, animationLoop, endListener,
                             rafLoops>>
              /\ effect # "cleaned" => message' = "failed"]_vars

\* a request was rejected: the user is told, and nothing is attached
C23_Witness ==
    /\ message = "failed"
    /\ xrRequest = "none"
    /\ xrSession = "none"
    /\ sessions = 0
    /\ animationLoop = "null"
    /\ ~endListener
    /\ rafLoops.animateNonVR = 0

\* C24: while the renderer presents in VR, mousedown, mouseup, mousemove,
\* touchstart, touchend, touchmove and resize leave isDragging,
\* previousMousePosition, the cube's rotation, the camera aspect and the
\* renderer size unchanged.
C24_InertWhilePresenting ==
    [][(isPresenting /\ XRPointerOrResizeEvent) =>
           UNCHANGED <<isDragging, previousMousePosition, cubeRotation, canvas>>]_vars

\* the window was resized and the pointer moved during a drag begun before the
\* session: the canvas keeps its size and the drag its last position
C24_Witness ==
    /\ isPresenting
    /\ listening
    /\ isDragging
    /\ moves = 1
    /\ canvas.size # windowSize
    /\ previousMousePosition = Position(0, 0)
    /\ cubeRotation = [x |-> Ang(1, 3), y |-> Ang(1, 3)]

\* every render and effect that the clicks so far call for has run
ShapesSettled ==
    /\ effect = "mounted"
    /\ shapesLength = Len(shapesState)
    /\ recentered = shapesLength

\* C27: in the add-shape viewer, after the initial shape and n clicks on 'Add
\* Another Shape' the scene holds n + 1 meshes and the shapes state n + 1
\* entries, and once the re-centering effect has run for them, mesh i (from 0)
\* is at x = (i - n/2) * 1.5, y = 0, z = 0.
C27_AddShape ==
    /\ effect = "mounted" =>
           /\ sceneShapes = clicks + 1
           /\ Len(shapeMeshesRef) = clicks + 1
           /\ Len(shapesState) = clicks + 1
    /\ ShapesSettled =>
           \A i \in 0..clicks :
               shapeMeshesRef[i + 1] =
                   [x |-> Ang(150 * (2 * i - clicks), 0), y |-> Ang(0, 0), z |-> Ang(0, 0)]

\* three clicks, two of them between the same two renders: four meshes at
\* -2.25, -0.75, 0.75 and 2.25
C27_Witness ==
    /\ ShapesSettled
    /\ clicks = 3
    /\ sceneShapes = 4
    /\ Len(shapesState) = 4
    /\ shapeMeshesRef[1].x = Ang(-450, 0)
    /\ shapeMeshesRef[4].x = Ang(450, 0)

====
